---- MODULE Spec2Model ----
(***************************************************************************)
(* Model of src/myapp.py, the Streamlit "Document Chat Assistant".         *)
(*                                                                         *)
(* The script is re-executed from top to bottom on every user interaction. *)
(* One action of the model is one interaction: the script run it triggers, *)
(* and, where that run calls st.rerun(), the run that follows it.          *)
(*                                                                         *)
(* Text is a sequence of one-character strings, so that strip(), split()   *)
(* and lower() are computed rather than assumed.  Python lists are cells   *)
(* of a heap, so that list.copy() and an alias are different things.       *)
(***************************************************************************)
EXTENDS Integers, Sequences, FiniteSets, TLC

\* ------------------------------------------------------------------ bounds
\* Longest conversation the model lets a submission produce.
MaxTurns == 2
\* Most pages of a PDF drawn as an input of extract_pdf_content.
MaxPages == 2
\* Longest text of one such page.
MaxPageLen == 2

\* -------------------------------------------------------------------- text
Whitespace == {" ", "\n", "\t"}

RECURSIVE LStrip(_)
LStrip(s) == IF s # <<>> /\ Head(s) \in Whitespace THEN LStrip(Tail(s)) ELSE s

RECURSIVE RStrip(_)
RStrip(s) ==
    IF s # <<>> /\ s[Len(s)] \in Whitespace
    THEN RStrip(SubSeq(s, 1, Len(s) - 1))
    ELSE s

\* str.strip()
Strip(s) == RStrip(LStrip(s))

\* Python truthiness of a str: the empty string is falsy.
Truthy(s) == Len(s) > 0

Lower(c) ==
    CASE c = "P" -> "p"
      [] c = "D" -> "d"
      [] c = "F" -> "f"
      [] c = "T" -> "t"
      [] c = "X" -> "x"
      [] c = "M" -> "m"
      [] OTHER -> c

\* name.split('.')[-1]
RECURSIVE LastSegment(_)
LastSegment(s) ==
    IF \E i \in 1..Len(s) : s[i] = "."
    THEN LastSegment(Tail(s))
    ELSE s

\* uploaded_file.name.split('.')[-1].lower()
FileExtension(name) ==
    LET segment == LastSegment(name)
    IN [i \in 1..Len(segment) |-> Lower(segment[i])]

DigitChar(d) == <<"0", "1", "2", "3", "4", "5", "6", "7", "8", "9">>[d + 1]

\* str(n) for n >= 0
RECURSIVE Decimal(_)
Decimal(n) == IF n < 10 THEN <<DigitChar(n)>> ELSE Decimal(n \div 10) \o <<DigitChar(n % 10)>>

\* f"\n--- Page {page_num + 1} ---\n"
PageMarker(n) ==
    <<"\n", "-", "-", "-", " ", "P", "a", "g", "e", " ">> \o Decimal(n)
        \o <<" ", "-", "-", "-", "\n">>

\* -------------------------------------------------------------- extractors
\* An extractor returns its text, or raises: ok = FALSE and err names the
\* message of the exception.
Returned(text) == [ok |-> TRUE, text |-> text, err |-> ""]
Raised(msg) == [ok |-> FALSE, text |-> <<>>, err |-> msg]

\* The loop of extract_pdf_content over pages page_num+1 .. len(pages).
RECURSIVE PdfPagesText(_, _)
PdfPagesText(pages, page_num) ==
    IF page_num >= Len(pages)
    THEN <<>>
    ELSE PageMarker(page_num + 1)
            \o (IF Truthy(pages[page_num + 1]) THEN pages[page_num + 1] ELSE <<>>)
            \o PdfPagesText(pages, page_num + 1)

extract_pdf_content(pages, pypdf2_available) ==
    IF ~pypdf2_available
    THEN Raised("Error extracting PDF: PyPDF2 not installed")
    ELSE LET text == PdfPagesText(pages, 0)
         IN IF ~Truthy(Strip(text))
            THEN Raised("Error extracting PDF: No text found in PDF")
            ELSE Returned(text)

\* file_object.read().decode('utf-8'): utf8 tells whether the bytes decode.
extract_text_content(file) ==
    IF ~file.utf8
    THEN Raised("Error reading text file: invalid utf-8")
    ELSE IF ~Truthy(Strip(file.text))
         THEN Raised("Error reading text file: File is empty.")
         ELSE Returned(file.text)

\* The result before the extractor has run.
NotRun == Raised("not run")

\* ------------------------------------------------------------ sample inputs
\* An uploaded file: its name, whether its bytes decode as UTF-8, the decoded
\* text (text files) and the text PyPDF2 extracts from each page (PDF files).
NoFile == [name |-> <<>>, utf8 |-> TRUE, text |-> <<>>, pages |-> <<>>]
HelloTxt ==
    [name |-> <<"h", ".", "t", "x", "t">>, utf8 |-> TRUE, text |-> <<"H", "i">>,
     pages |-> <<>>]
BlankMd ==
    [name |-> <<"b", ".", "M", "D">>, utf8 |-> TRUE, text |-> <<" ", "\n">>,
     pages |-> <<>>]
BadTxt ==
    [name |-> <<"x", ".", "t", "x", "t">>, utf8 |-> FALSE, text |-> <<>>,
     pages |-> <<>>]
TwoPagePdf ==
    [name |-> <<"v", "1", ".", "P", "D", "F">>, utf8 |-> TRUE, text |-> <<>>,
     pages |-> << <<"A">>, <<"B">> >>]
Files == {HelloTxt, BlankMd, BadTxt, TwoPagePdf}

\* Values typed into the API key field; "" is the empty field.
GoodKey == "sk-1"
ApiKeys == {GoodKey}

\* Values typed into the "Context name:" field.
LabelX == <<"x">>
ContextNames == {<<>>, <<" ">>, LabelX}

Prompts == {<<"q">>}
\* The chunks the completion endpoint streams back.
StreamChunks == << <<"r">>, <<"s">> >>
Outcomes == {"ok", "create_error", "stream_error"}

\* ------------------------------------------------------------------- state
VARIABLES
    session_state,      \* st.session_state
    heap,               \* the list objects st.session_state refers to
    api_key,            \* value of the "OpenAI API Key" text_input widget
    uploaded_file,      \* value of the file_uploader widget
    PYPDF2_AVAILABLE,   \* whether `import PyPDF2` succeeded
    last,               \* what the last interaction did and showed
    rt,                 \* progress of a save / clear / load sequence
    pdf_pages,          \* input of extract_pdf_content
    pdf_text            \* its result

vars ==
    <<session_state, heap, api_key, uploaded_file, PYPDF2_AVAILABLE, last, rt,
      pdf_pages, pdf_text>>

\* None and values that may be None.
NoneText == [some |-> FALSE, val |-> <<>>]
NoneStr == [some |-> FALSE, val |-> ""]
Some(v) == [some |-> TRUE, val |-> v]
\* `if x:` for a value that is None or a str
TruthyOpt(o) == o.some /\ Truthy(o.val)

\* The names a context can be stored under, in a fixed order.
Storable == <<LabelX>>

\* One list cell more than can be referenced at once, so that a new list can
\* always be allocated.
Cells == 0..(Len(Storable) + 1)

InUse(ss) ==
    {ss.messages} \cup {ss.saved_contexts[n].messages : n \in DOMAIN ss.saved_contexts}

NewCell(ss) == CHOOSE c \in Cells \ InUse(ss) : \A d \in Cells \ InUse(ss) : c <= d

\* The cells referred to: by st.session_state.messages first, then by the
\* saved contexts in the order of Storable.
Holders(ss) ==
    <<ss.messages>> \o
        [i \in 1..Len(Storable) |->
            IF Storable[i] \in DOMAIN ss.saved_contexts
            THEN ss.saved_contexts[Storable[i]].messages
            ELSE ss.messages]

FirstHolder(hs, c) == CHOOSE i \in 1..Len(hs) : hs[i] = c /\ \A j \in 1..(i - 1) : hs[j] # c

\* The address a cell in use gets when the heap is compacted.
Moved(hs, c) == Cardinality({hs[j] : j \in 1..(FirstHolder(hs, c) - 1)})

\* Lists nothing refers to any more are reclaimed and the others are moved
\* to the lowest addresses: which address a list has is not observable.
Collect(w) ==
    LET hs == Holders(w.ss)
        used == {hs[i] : i \in 1..Len(hs)}
    IN [ss |-> [w.ss EXCEPT
                  !.messages = Moved(hs, @),
                  !.saved_contexts =
                      [n \in DOMAIN @ |-> [@[n] EXCEPT !.messages = Moved(hs, @)]]],
        heap |-> [c \in Cells |->
                    IF \E d \in used : Moved(hs, d) = c
                    THEN w.heap[CHOOSE d \in used : Moved(hs, d) = c]
                    ELSE <<>>]]

\* The live Conversation.
Conversation == heap[session_state.messages]
\* The turns stored under a saved context.
SavedTurns(n) == heap[session_state.saved_contexts[n].messages]

\* ------------------------------------------------- functions of the script
\* OpenAI(api_key=key) does not raise for a key that is a non-empty string,
\* the only kind the caller passes.
initialize_openai_client(key) == Some(key)

process_document(file_content, file_name, file_type) ==
    [content |-> file_content, name |-> file_name, type |-> file_type,
     size |-> Len(file_content)]

\* The test for an empty conversation left out.
save_context_unchecked(w, context_name) ==
    IF ~Truthy(Strip(context_name))
    THEN w
    ELSE LET copy == NewCell(w.ss)
         IN [ss |-> [w.ss EXCEPT !.saved_contexts =
                       [n \in DOMAIN @ \cup {context_name} |->
                           IF n = context_name
                           THEN [messages |-> copy,
                                 document |-> w.ss.document_name,
                                 document_type |-> w.ss.document_type]
                           ELSE @[n]]],
             heap |-> [w.heap EXCEPT ![copy] = w.heap[w.ss.messages]]]

save_context(w, context_name) ==
    IF ~Truthy(Strip(context_name))
    THEN w
    ELSE IF w.heap[w.ss.messages] # <<>>
         THEN LET copy == NewCell(w.ss)
              IN [ss |-> [w.ss EXCEPT !.saved_contexts =
                            [n \in DOMAIN @ \cup {context_name} |->
                                IF n = context_name
                                THEN [messages |-> copy,
                                      document |-> w.ss.document_name,
                                      document_type |-> w.ss.document_type]
                                ELSE @[n]]],
                  heap |-> [w.heap EXCEPT ![copy] = w.heap[w.ss.messages]]]
         ELSE w

\* The live list made the saved list itself, not a copy of it.
load_context_alias(w, context_name) ==
    IF context_name \in DOMAIN w.ss.saved_contexts
    THEN [w EXCEPT !.ss.messages = w.ss.saved_contexts[context_name].messages]
    ELSE w

\* The copy made and dropped, st.session_state.messages not assigned.
load_context_noassign(w, context_name) == w

\* Without the st.rerun() that ends it: the actions add the run that follows.
load_context(w, context_name) ==
    IF context_name \in DOMAIN w.ss.saved_contexts
    THEN LET copy == NewCell(w.ss)
         IN [ss |-> [w.ss EXCEPT !.messages = copy],
             heap |-> [w.heap EXCEPT ![copy] =
                         w.heap[w.ss.saved_contexts[context_name].messages]]]
    ELSE w

clear_chat(w) ==
    LET empty == NewCell(w.ss)
    IN [ss |-> [w.ss EXCEPT !.messages = empty],
        heap |-> [w.heap EXCEPT ![empty] = <<>>]]

delete_context(w, context_name) ==
    IF context_name \in DOMAIN w.ss.saved_contexts
    THEN [w EXCEPT !.ss.saved_contexts =
            [n \in DOMAIN @ \ {context_name} |-> @[n]]]
    ELSE w

\* ------------------------------------------------------ sidebar, top part
api_key_input(ss, key) ==
    IF key # ""
    THEN [ss EXCEPT !.client = initialize_openai_client(key)]
    ELSE ss

\* The extractor the file's extension selects, applied to the file.
Extracted(file, pypdf2_available) ==
    LET file_extension == FileExtension(file.name)
    IN CASE file_extension = <<"p", "d", "f">> ->
                extract_pdf_content(file.pages, pypdf2_available)
         [] file_extension \in {<<"t", "x", "t">>, <<"m", "d">>} ->
                extract_text_content(file)
         [] OTHER -> Returned(<<>>)

DocTypeOf(file) ==
    IF FileExtension(file.name) = <<"p", "d", "f">> THEN "PDF" ELSE "Text"

\* `if file_content:` after the extractor returned without raising
Loads(file, pypdf2_available) ==
    LET extracted == Extracted(file, pypdf2_available)
    IN extracted.ok /\ Truthy(extracted.text)

\* A failed extraction resets the document.
upload_handling_reset(ss, file, pypdf2_available) ==
    IF file = NoFile
    THEN ss
    ELSE LET extracted == Extracted(file, pypdf2_available)
             processed == process_document(extracted.text, file.name, DocTypeOf(file))
         IN IF extracted.ok /\ Truthy(extracted.text)
            THEN [ss EXCEPT !.document_content = Some(processed.content),
                            !.document_name = Some(processed.name),
                            !.document_type = Some(processed.type),
                            !.document_size = processed.size]
            ELSE [ss EXCEPT !.document_content = NoneText,
                            !.document_name = NoneText,
                            !.document_type = NoneStr,
                            !.document_size = 0]

upload_handling(ss, file, pypdf2_available) ==
    IF file = NoFile
    THEN ss
    ELSE LET extracted == Extracted(file, pypdf2_available)
             processed == process_document(extracted.text, file.name, DocTypeOf(file))
         IN IF extracted.ok /\ Truthy(extracted.text)
            THEN [ss EXCEPT !.document_content = Some(processed.content),
                            !.document_name = Some(processed.name),
                            !.document_type = Some(processed.type),
                            !.document_size = processed.size]
            ELSE ss

\* Lines 216-288, which every run of the script executes before it looks at
\* any button.
SidebarTop(w, key, file) ==
    [w EXCEPT !.ss = upload_handling(api_key_input(w.ss, key), file, PYPDF2_AVAILABLE)]

clear_document(w) ==
    [w EXCEPT !.ss.document_content = NoneText,
              !.ss.document_name = NoneText,
              !.ss.document_type = NoneStr,
              !.ss.document_size = 0]

\* ------------------------------------------------------ main chat interface
\* The three tests a question passes before it is handled: `if not
\* st.session_state.client` and the two `if not ...document_content`.
\* The tests of the document left out.
ChatOpen_nodoc(ss) == ss.client.some

ChatOpen(ss) == ss.client.some /\ TruthyOpt(ss.document_content)

system_prompt(ss) ==
    <<"You are a helpful and professional assistant. ", "DOCUMENT: ">>
        \o ss.document_name.val
        \o <<"\nTYPE: ", ss.document_type.val, "\n\nDOCUMENT CONTENT:\n---\n">>
        \o ss.document_content.val
        \o <<"\n---\n\nGuidelines:">>

UserTurn(prompt) == [role |-> "user", content |-> prompt]
AssistantTurn(text) == [role |-> "assistant", content |-> text]

\* st.write_stream: the chunks concatenated in arrival order.
RECURSIVE Accumulate(_)
Accumulate(chunks) ==
    IF chunks = <<>> THEN <<>> ELSE Head(chunks) \o Accumulate(Tail(chunks))

\* The messages argument of chat.completions.create, built before the
\* user's turn is in the list.
Request_stale(w, prompt) ==
    <<[role |-> "system", content |-> system_prompt(w.ss)]>> \o w.heap[w.ss.messages]

\* The messages argument of chat.completions.create for a question asked in w.
Request(w, prompt) ==
    <<[role |-> "system", content |-> system_prompt(w.ss)]>>
        \o Append(w.heap[w.ss.messages], UserTurn(prompt))

\* A failed call takes the user's turn back.
chat_input_rollback(w, prompt, outcome) ==
    IF ~ChatOpen(w.ss)
    THEN w
    ELSE IF outcome = "ok"
         THEN [w EXCEPT !.heap[w.ss.messages] =
                 Append(Append(@, UserTurn(prompt)),
                        AssistantTurn(Accumulate(StreamChunks)))]
         ELSE w

\* The handler of st.chat_input for a submitted prompt; outcome tells whether
\* create() raised, the stream raised while it was consumed, or neither.
chat_input(w, prompt, outcome) ==
    IF ~ChatOpen(w.ss)
    THEN w
    ELSE IF outcome = "ok"
         THEN [w EXCEPT !.heap[w.ss.messages] =
                 Append(Append(@, UserTurn(prompt)),
                        AssistantTurn(Accumulate(StreamChunks)))]
         ELSE [w EXCEPT !.heap[w.ss.messages] = Append(@, UserTurn(prompt))]

\* ----------------------------------------------------------------- actions
World == [ss |-> session_state, heap |-> heap]

\* A run of the whole script in which no widget reports an event.
Rerun(w) == SidebarTop(w, api_key, uploaded_file)

NoRoundTrip == [stage |-> 0, label |-> <<>>, turns |-> <<>>]

\* What an interaction was, the text it came with, whether it did what it
\* was for, whether it called
\* the completion endpoint and with which messages.
Interaction(op, arg, ok, called, request) ==
    [op |-> op, arg |-> arg, ok |-> ok, called |-> called, request |-> request]

Finish(w, interaction, roundtrip) ==
    /\ LET collected == Collect(w)
       IN /\ session_state' = collected.ss
          /\ heap' = collected.heap
    /\ last' = interaction
    /\ rt' = roundtrip
    /\ UNCHANGED <<PYPDF2_AVAILABLE, pdf_pages, pdf_text>>

\* The user types or erases the API key.
EnterApiKey(key) ==
    /\ key # api_key
    /\ api_key' = key
    /\ UNCHANGED uploaded_file
    /\ Finish(SidebarTop(World, key, uploaded_file),
              Interaction("api_key", <<>>, key # "", FALSE, <<>>),
              NoRoundTrip)

\* The user puts a file into the uploader.
UploadFile(file) ==
    /\ uploaded_file' = file
    /\ UNCHANGED api_key
    /\ Finish(SidebarTop(World, api_key, file),
              Interaction("upload", <<>>, Loads(file, PYPDF2_AVAILABLE), FALSE, <<>>),
              NoRoundTrip)

\* The user takes the file out of the uploader.
RemoveFile ==
    /\ uploaded_file # NoFile
    /\ uploaded_file' = NoFile
    /\ UNCHANGED api_key
    /\ Finish(SidebarTop(World, api_key, NoFile),
              Interaction("remove_file", <<>>, TRUE, FALSE, <<>>),
              NoRoundTrip)

\* "Clear Document": the button exists while a document name is set.
ClickClearDocument ==
    /\ TruthyOpt(session_state.document_name)
    /\ UNCHANGED <<api_key, uploaded_file>>
    /\ Finish(LET before == Rerun(World)
              IN IF TruthyOpt(before.ss.document_name)
                 THEN Rerun(clear_document(before))
                 ELSE before,
              Interaction("clear_document", <<>>, TRUE, FALSE, <<>>),
              NoRoundTrip)

\* "Save Context": opens the save dialog; the run goes on and shows it.
ClickSaveContext ==
    /\ UNCHANGED <<api_key, uploaded_file>>
    /\ Finish([Rerun(World) EXCEPT !.ss.show_save_dialog = TRUE],
              Interaction("save_dialog", <<>>, TRUE, FALSE, <<>>),
              NoRoundTrip)

\* "Clear Chat"
ClickClearChat ==
    /\ UNCHANGED <<api_key, uploaded_file>>
    /\ Finish(Rerun(clear_chat(Rerun(World))),
              Interaction("clear_chat", <<>>, TRUE, FALSE, <<>>),
              IF rt.stage = 1 THEN [rt EXCEPT !.stage = 2] ELSE NoRoundTrip)

\* The state the "Save" button of the dialog leaves, context_name being the
\* value of the text field next to it.
SaveClicked(w, context_name) ==
    IF Truthy(context_name)
    THEN Rerun([save_context(w, context_name) EXCEPT !.ss.show_save_dialog = FALSE])
    ELSE w

ClickSave(context_name) ==
    /\ session_state.show_save_dialog
    /\ UNCHANGED <<api_key, uploaded_file>>
    /\ LET before == Rerun(World)
           after == SaveClicked(before, context_name)
           stored == after.ss.saved_contexts # before.ss.saved_contexts
       IN Finish(after,
                 Interaction("save", context_name, stored, FALSE, <<>>),
                 IF stored
                 THEN [stage |-> 1, label |-> context_name,
                       turns |-> before.heap[before.ss.messages]]
                 ELSE NoRoundTrip)

\* "Cancel" in the save dialog
ClickCancel ==
    /\ session_state.show_save_dialog
    /\ UNCHANGED <<api_key, uploaded_file>>
    /\ Finish(Rerun([Rerun(World) EXCEPT !.ss.show_save_dialog = FALSE]),
              Interaction("cancel", <<>>, TRUE, FALSE, <<>>),
              NoRoundTrip)

\* The load button of a saved context
ClickLoad(context_name) ==
    /\ context_name \in DOMAIN session_state.saved_contexts
    /\ UNCHANGED <<api_key, uploaded_file>>
    /\ Finish(Rerun(load_context(Rerun(World), context_name)),
              Interaction("load", context_name, TRUE, FALSE, <<>>),
              IF rt.stage = 2 /\ rt.label = context_name
              THEN [rt EXCEPT !.stage = 3]
              ELSE NoRoundTrip)

\* The delete button of a saved context
ClickDelete(context_name) ==
    /\ context_name \in DOMAIN session_state.saved_contexts
    /\ UNCHANGED <<api_key, uploaded_file>>
    /\ Finish(Rerun(delete_context(Rerun(World), context_name)),
              Interaction("delete", context_name, TRUE, FALSE, <<>>),
              NoRoundTrip)

\* The user sends a question.  The script asks st.chat_input for it only
\* when the client and the document are there; otherwise the question goes
\* nowhere.
Submit(prompt, outcome) ==
    /\ Len(Conversation) + (IF outcome = "ok" THEN 2 ELSE 1) <= MaxTurns
    /\ UNCHANGED <<api_key, uploaded_file>>
    /\ LET before == Rerun(World)
           after == chat_input(before, prompt, outcome)
           called == ChatOpen(before.ss)
       IN Finish(after,
                 Interaction("submit", prompt, called /\ outcome = "ok", called,
                             IF called THEN Request(before, prompt) ELSE <<>>),
                 NoRoundTrip)

Init ==
    /\ session_state =
         [messages |-> 0,
          document_content |-> NoneText,
          document_name |-> NoneText,
          document_type |-> NoneStr,
          document_size |-> 0,
          saved_contexts |-> [n \in {} |-> 0],
          client |-> NoneStr,
          show_save_dialog |-> FALSE]
    /\ heap = [c \in Cells |-> <<>>]
    /\ api_key = ""
    /\ uploaded_file = NoFile
    /\ PYPDF2_AVAILABLE \in BOOLEAN
    /\ last = Interaction("start", <<>>, TRUE, FALSE, <<>>)
    /\ rt = NoRoundTrip
    /\ pdf_pages = <<>>
    /\ pdf_text = NotRun

Next ==
    \/ \E key \in ApiKeys \cup {""} : EnterApiKey(key)
    \/ \E file \in Files : UploadFile(file)
    \/ RemoveFile
    \/ ClickClearDocument
    \/ ClickSaveContext
    \/ ClickClearChat
    \/ \E context_name \in ContextNames : ClickSave(context_name)
    \/ ClickCancel
    \/ \E context_name \in ContextNames : ClickLoad(context_name)
    \/ \E context_name \in ContextNames : ClickDelete(context_name)
    \/ \E prompt \in Prompts, outcome \in Outcomes : Submit(prompt, outcome)

Spec == Init /\ [][Next]_vars

\* ------------------------------------------- extract_pdf_content on its own
SeqsUpTo(S, n) == UNION {[1..k -> S] : k \in 0..n}

\* What page.extract_text() returns for one page.
PageTexts == SeqsUpTo({"A", " "}, MaxPageLen)

InitExtract ==
    /\ session_state =
         [messages |-> 0,
          document_content |-> NoneText,
          document_name |-> NoneText,
          document_type |-> NoneStr,
          document_size |-> 0,
          saved_contexts |-> [n \in {} |-> 0],
          client |-> NoneStr,
          show_save_dialog |-> FALSE]
    /\ heap = [c \in Cells |-> <<>>]
    /\ api_key = ""
    /\ uploaded_file = NoFile
    /\ PYPDF2_AVAILABLE \in BOOLEAN
    /\ last = Interaction("start", <<>>, TRUE, FALSE, <<>>)
    /\ rt = NoRoundTrip
    /\ pdf_pages \in SeqsUpTo(PageTexts, MaxPages)
    /\ pdf_text = NotRun

ExtractPdf ==
    /\ pdf_text = NotRun
    /\ pdf_text' = extract_pdf_content(pdf_pages, PYPDF2_AVAILABLE)
    /\ UNCHANGED <<session_state, heap, api_key, uploaded_file, PYPDF2_AVAILABLE,
                   last, rt, pdf_pages>>

NextExtract == ExtractPdf

SpecExtract == InitExtract /\ [][NextExtract]_vars

\* -------------------------------------------------------------- properties
DocumentEmpty(ss) ==
    /\ ~TruthyOpt(ss.document_content)
    /\ ss.document_name = NoneText
    /\ ss.document_type = NoneStr
    /\ ss.document_size = 0

DocumentOf(ss) ==
    <<ss.document_content, ss.document_name, ss.document_type, ss.document_size>>

\* The turns stored under every saved context.
AllSavedTurns ==
    [n \in DOMAIN session_state.saved_contexts |-> SavedTurns(n)]

\* C1: a question asked while the Document Store is Empty appends no user
\* turn and issues no completion call.
C1_SubmitNeedsDocument ==
    [][(last'.op = "submit" /\ ~TruthyOpt(session_state.document_content))
         => (~last'.called /\ Conversation' = Conversation)]_vars

\* A question was asked with a client but without a document, and went nowhere.
C1_Witness ==
    /\ last.op = "submit"
    /\ ~last.called
    /\ session_state.client.some
    /\ ~TruthyOpt(session_state.document_content)

\* C2: a question whose completion call fails leaves the Conversation
\* extended by exactly the user's turn; one whose call succeeds leaves it
\* extended by the user's turn and one assistant turn with the whole text.
C2_CompletionOutcome ==
    [][(last'.op = "submit" /\ last'.called)
         => IF last'.ok
            THEN Conversation' =
                    Conversation
                        \o <<[role |-> "user", content |-> last'.arg],
                             [role |-> "assistant", content |-> <<"r", "s">>]>>
            ELSE Conversation' =
                    Append(Conversation, [role |-> "user", content |-> last'.arg])]_vars

\* A completion call failed after an earlier question had been answered or
\* left unanswered.
C2_Witness ==
    /\ last.op = "submit"
    /\ last.called
    /\ ~last.ok
    /\ Len(Conversation) = 2

\* C3: save under a non-blank name, then Clear Chat, then load of that name
\* leaves the Conversation equal to the non-empty one that was saved.
C3_RoundTrip ==
    (rt.stage = 3 /\ rt.turns # <<>>) => Conversation = rt.turns

\* The three steps were taken on a conversation of two turns.
C3_Witness ==
    /\ rt.stage = 3
    /\ Len(rt.turns) = 2
    /\ last.op = "load"

\* C4: the turns stored under a name change only in a step that saves under
\* that name again (or deletes it).
C4_SnapshotImmutable ==
    [][\A n \in DOMAIN session_state.saved_contexts :
          (/\ n \in DOMAIN session_state'.saved_contexts
           /\ ~(last'.op = "save" /\ last'.ok /\ last'.arg = n))
            => SavedTurns(n)' = SavedTurns(n)]_vars

\* A turn was appended to a conversation that was loaded from a saved
\* context: the live conversation is the saved one and one turn more.
C4_Witness ==
    /\ last.op = "submit"
    /\ last.called
    /\ LabelX \in DOMAIN session_state.saved_contexts
    /\ Len(SavedTurns(LabelX)) = 1
    /\ Conversation = Append(SavedTurns(LabelX), [role |-> "user", content |-> <<"q">>])

\* C5: an upload whose extraction fails changes neither the Document Store
\* nor the Conversation nor the saved contexts.
C5_FailedUploadKeepsState ==
    [][(last'.op = "upload" /\ ~last'.ok)
         => /\ DocumentOf(session_state') = DocumentOf(session_state)
            /\ Conversation' = Conversation
            /\ session_state'.saved_contexts = session_state.saved_contexts
            /\ AllSavedTurns' = AllSavedTurns]_vars

\* An upload failed while a document was loaded and a conversation and a
\* saved context existed.
C5_Witness ==
    /\ last.op = "upload"
    /\ ~last.ok
    /\ TruthyOpt(session_state.document_content)
    /\ Conversation # <<>>
    /\ LabelX \in DOMAIN session_state.saved_contexts

\* C6: a save while the Conversation has no turns changes no saved context,
\* and no saved context ever holds zero turns.
C6_NoEmptySnapshot ==
    /\ [](\A n \in DOMAIN session_state.saved_contexts : SavedTurns(n) # <<>>)
    /\ [][(last'.op = "save" /\ Conversation = <<>>)
            => /\ session_state'.saved_contexts = session_state.saved_contexts
               /\ AllSavedTurns' = AllSavedTurns]_vars

\* A save under a name in use was tried on an empty conversation.
C6_Witness ==
    /\ last.op = "save"
    /\ last.arg = LabelX
    /\ ~last.ok
    /\ Conversation = <<>>
    /\ LabelX \in DOMAIN session_state.saved_contexts

\* The roles of the turns after the system message alternate, user first.
Alternates(request) ==
    \A i \in 2..Len(request) :
        request[i].role = (IF i % 2 = 0 THEN "user" ELSE "assistant")

NoPageText(pages) == \A i \in 1..Len(pages) : Strip(pages[i]) = <<>>

RECURSIVE MarkedPages(_, _)
MarkedPages(pages, n) ==
    IF n > Len(pages)
    THEN <<>>
    ELSE PageMarker(n) \o pages[n] \o MarkedPages(pages, n + 1)

\* C8 as claimed: with PyPDF2 there, extract_pdf_content fails with "No text
\* found" exactly when no page yields text that is not whitespace, and
\* otherwise returns the pages' texts, each after its "--- Page N ---".
C8_PdfEmptyContent ==
    (pdf_text # NotRun /\ PYPDF2_AVAILABLE)
        => /\ NoPageText(pdf_pages)
                <=> pdf_text = Raised("Error extracting PDF: No text found in PDF")
           /\ ~NoPageText(pdf_pages)
                => /\ pdf_text.ok
                   /\ pdf_text.text # <<>>
                   /\ pdf_text.text = MarkedPages(pdf_pages, 1)

\* C9 as claimed: after the Clear Document action the Document Store is
\* Empty: content, name and kind absent, size 0.
C9_ClearDocumentEmpties ==
    last.op = "clear_document" => DocumentEmpty(session_state)

\* C10 as claimed: no completion call is issued while no API key is supplied.
C10_NoKeyNoCall ==
    last.called => api_key # ""

====
